---- MODULE Spec2Model ----
(***************************************************************************)
(* emojico: the ICO container encoder of src/src/index.ts.                 *)
(*                                                                         *)
(* Buffers are sequences of bytes (0..255); a Node offset o is the         *)
(* sequence index o + 1.  A call that can throw returns a record           *)
(* [err, buf]: err = "none" and the buffer, or the error's code and <<>>.  *)
(***************************************************************************)
EXTENDS Integers, Sequences, FiniteSets, TLC

(***************************************************************************)
(* Bounds of the model.                                                    *)
(***************************************************************************)
\* longest list of PNG buffers handed to generateIco
MaxImages == 2
\* pixel contents per buffer length: seeds 0..MaxSeed
MaxSeed == 1
\* widths and heights 0..MaxDim of the buffers handed to convertRgbaToBgr
MaxDim == 3
\* the most command-line arguments of a drawn argument list
MaxArgs == 4

(***************************************************************************)
(* Node's Buffer, as far as index.ts uses it.                              *)
(***************************************************************************)
ERR_OUT_OF_RANGE == "ERR_OUT_OF_RANGE"

Ok(b) == [err |-> "none", buf |-> b]

Throw(e) == [err |-> e, buf |-> <<>>]

\* Buffer.alloc(n): n zero bytes
alloc(n) == [i \in 1..n |-> 0]

\* does a value of `bytes` bytes fit at `offset` of a buffer of length len
InRange(len, offset, bytes) == offset >= 0 /\ offset + bytes <= len

\* writeUInt8 keeping the low byte of a value that does not fit, not throwing
writeUInt8_lowByte(r, value, offset) ==
  IF r.err # "none" THEN r
  ELSE IF ~InRange(Len(r.buf), offset, 1)
       THEN Throw(ERR_OUT_OF_RANGE)
       ELSE Ok([r.buf EXCEPT ![offset + 1] = value % 256])

\* buf.writeUInt8(value, offset) on the buffer of r; a thrown error stays
writeUInt8(r, value, offset) ==
  IF r.err # "none" THEN r
  ELSE IF value < 0 \/ value > 255 \/ ~InRange(Len(r.buf), offset, 1)
       THEN Throw(ERR_OUT_OF_RANGE)
       ELSE Ok([r.buf EXCEPT ![offset + 1] = value])

\* buf.writeUInt16LE(value, offset)
writeUInt16LE(r, value, offset) ==
  IF r.err # "none" THEN r
  ELSE IF value < 0 \/ value > 65535 \/ ~InRange(Len(r.buf), offset, 2)
       THEN Throw(ERR_OUT_OF_RANGE)
       ELSE Ok([r.buf EXCEPT ![offset + 1] = value % 256,
                             ![offset + 2] = value \div 256])

\* the four little-endian bytes of the 32-bit two's complement pattern of v
\* (\div rounds down and % is never negative, so a negative v gets the bytes
\* of v + 2^32)
LE32(v) ==
  << v % 256, (v \div 256) % 256, (v \div 65536) % 256,
     (v \div 16777216) % 256 >>

\* buf.writeUInt32LE(value, offset).  The integers of the model stay below
\* 2^31, so the upper limit 2^32 - 1 of the value is never exceeded.
writeUInt32LE(r, value, offset) ==
  IF r.err # "none" THEN r
  ELSE IF value < 0 \/ ~InRange(Len(r.buf), offset, 4)
       THEN Throw(ERR_OUT_OF_RANGE)
       ELSE Ok([i \in 1..Len(r.buf) |->
                 IF i > offset /\ i <= offset + 4
                   THEN LE32(value)[i - offset] ELSE r.buf[i]])

\* buf.writeInt32LE(value, offset): two's complement
writeInt32LE(r, value, offset) ==
  IF r.err # "none" THEN r
  ELSE IF value < -2147483647 - 1 \/ value > 2147483647
            \/ ~InRange(Len(r.buf), offset, 4)
       THEN Throw(ERR_OUT_OF_RANGE)
       ELSE Ok([i \in 1..Len(r.buf) |->
                 IF i > offset /\ i <= offset + 4
                   THEN LE32(value)[i - offset] ELSE r.buf[i]])

\* may buf.readUInt8(offset) be called without throwing
CanRead(buf, offset) == InRange(Len(buf), offset, 1)

\* buf.readUInt8(offset), where CanRead
readUInt8(buf, offset) == buf[offset + 1]

\* buf.readUInt16LE(offset) / readUInt32LE(offset), as the tests read them
readUInt16LE(buf, offset) == buf[offset + 1] + 256 * buf[offset + 2]

readUInt32LE(buf, offset) ==
  buf[offset + 1] + 256 * buf[offset + 2] + 65536 * buf[offset + 3]
    + 16777216 * buf[offset + 4]

\* buf.readInt32LE(offset)
readInt32LE(buf, offset) ==
  buf[offset + 1] + 256 * buf[offset + 2] + 65536 * buf[offset + 3]
    + 16777216 * (IF buf[offset + 4] >= 128 THEN buf[offset + 4] - 256
                                            ELSE buf[offset + 4])

(***************************************************************************)
(* createIcoHeader, index.ts 147-153.                                      *)
(***************************************************************************)
\* createIcoHeader with the type and the count written at each other's offsets
createIcoHeader_swapped(count) ==
  writeUInt16LE(writeUInt16LE(writeUInt16LE(Ok(alloc(6)), 0, 0), 1, 4),
                count, 2)

createIcoHeader(count) ==
  writeUInt16LE(writeUInt16LE(writeUInt16LE(Ok(alloc(6)), 0, 0), 1, 2),
                count, 4)

(***************************************************************************)
(* createIcoDirectory, index.ts 160-178.                                   *)
(***************************************************************************)
\* DimByte without the special case of 256
DimByte_raw(d) == d

\* the byte written for a dimension: 0 means 256
DimByte(d) == IF d = 256 THEN 0 ELSE d

\* createIcoDirectory writing the bytes per pixel where the bits per pixel go
createIcoDirectory_bytesPerPixel(width, height, bpp, size, offset) ==
  LET b0 == writeUInt8(Ok(alloc(16)), DimByte(width), 0)
      b1 == writeUInt8(b0, DimByte(height), 1)
      b2 == writeUInt8(b1, 0, 2)
      b3 == writeUInt8(b2, 0, 3)
      b4 == writeUInt16LE(b3, 1, 4)
      b5 == writeUInt16LE(b4, bpp, 6)
      b6 == writeUInt32LE(b5, size, 8)
  IN  writeUInt32LE(b6, offset, 12)

createIcoDirectory(width, height, bpp, size, offset) ==
  LET b0 == writeUInt8(Ok(alloc(16)), DimByte(width), 0)
      b1 == writeUInt8(b0, DimByte(height), 1)
      b2 == writeUInt8(b1, 0, 2)
      b3 == writeUInt8(b2, 0, 3)
      b4 == writeUInt16LE(b3, 1, 4)
      b5 == writeUInt16LE(b4, bpp * 8, 6)
      b6 == writeUInt32LE(b5, size, 8)
  IN  writeUInt32LE(b6, offset, 12)

(***************************************************************************)
(* createBitmapInfoHeader, index.ts 183-202.                               *)
(***************************************************************************)
\* createBitmapInfoHeader with the height written as it is, not doubled
createBitmapInfoHeader_plainHeight(width, height, bpp, dataSize) ==
  LET b0 == writeUInt32LE(Ok(alloc(40)), 40, 0)
      b1 == writeInt32LE(b0, width, 4)
      b2 == writeInt32LE(b1, height, 8)
      b3 == writeUInt16LE(b2, 1, 12)
      b4 == writeUInt16LE(b3, bpp * 8, 14)
      b5 == writeUInt32LE(b4, 0, 16)
      b6 == writeUInt32LE(b5, dataSize, 20)
      b7 == writeInt32LE(b6, 0, 24)
      b8 == writeInt32LE(b7, 0, 28)
      b9 == writeUInt32LE(b8, 0, 32)
  IN  writeUInt32LE(b9, 0, 36)

\* createBitmapInfoHeader with the image size written in the compression
\* field and the compression in the image size field
createBitmapInfoHeader_sizeAt16(width, height, bpp, dataSize) ==
  LET b0 == writeUInt32LE(Ok(alloc(40)), 40, 0)
      b1 == writeInt32LE(b0, width, 4)
      b2 == writeInt32LE(b1, height * 2, 8)
      b3 == writeUInt16LE(b2, 1, 12)
      b4 == writeUInt16LE(b3, bpp * 8, 14)
      b5 == writeUInt32LE(b4, dataSize, 16)
      b6 == writeUInt32LE(b5, 0, 20)
      b7 == writeInt32LE(b6, 0, 24)
      b8 == writeInt32LE(b7, 0, 28)
      b9 == writeUInt32LE(b8, 0, 32)
  IN  writeUInt32LE(b9, 0, 36)

createBitmapInfoHeader(width, height, bpp, dataSize) ==
  LET b0 == writeUInt32LE(Ok(alloc(40)), 40, 0)
      b1 == writeInt32LE(b0, width, 4)
      b2 == writeInt32LE(b1, height * 2, 8)
      b3 == writeUInt16LE(b2, 1, 12)
      b4 == writeUInt16LE(b3, bpp * 8, 14)
      b5 == writeUInt32LE(b4, 0, 16)
      b6 == writeUInt32LE(b5, dataSize, 20)
      b7 == writeInt32LE(b6, 0, 24)
      b8 == writeInt32LE(b7, 0, 28)
      b9 == writeUInt32LE(b8, 0, 32)
  IN  writeUInt32LE(b9, 0, 36)

(***************************************************************************)
(* convertRgbaToBgr, index.ts 208-238.                                     *)
(***************************************************************************)
\* A call works on two buffers, its argument rgbaData and the buffer buf it
\* allocates (index.ts 217); m holds both, with the error thrown so far.
\* convertPixel writing the channels in the order they were read: r, g, b, a
convertPixel_noSwap(m, srcPos, dstPos) ==
  IF ~CanRead(m.rgbaData, srcPos) \/ ~CanRead(m.rgbaData, srcPos + 1)
       \/ ~CanRead(m.rgbaData, srcPos + 2) \/ ~CanRead(m.rgbaData, srcPos + 3)
  THEN [m EXCEPT !.err = ERR_OUT_OF_RANGE, !.buf = <<>>]
  ELSE LET w == writeUInt8(
                  writeUInt8(
                    writeUInt8(
                      writeUInt8(Ok(m.buf), readUInt8(m.rgbaData, srcPos),
                                 dstPos),
                      readUInt8(m.rgbaData, srcPos + 1), dstPos + 1),
                    readUInt8(m.rgbaData, srcPos + 2), dstPos + 2),
                  readUInt8(m.rgbaData, srcPos + 3), dstPos + 3)
       IN  [err |-> w.err, buf |-> w.buf, rgbaData |-> m.rgbaData]

\* convertPixel writing the channels one place off: g, b, r, a
convertPixel_rotated(m, srcPos, dstPos) ==
  IF ~CanRead(m.rgbaData, srcPos) \/ ~CanRead(m.rgbaData, srcPos + 1)
       \/ ~CanRead(m.rgbaData, srcPos + 2) \/ ~CanRead(m.rgbaData, srcPos + 3)
  THEN [m EXCEPT !.err = ERR_OUT_OF_RANGE, !.buf = <<>>]
  ELSE LET w == writeUInt8(
                  writeUInt8(
                    writeUInt8(
                      writeUInt8(Ok(m.buf), readUInt8(m.rgbaData, srcPos + 1),
                                 dstPos),
                      readUInt8(m.rgbaData, srcPos + 2), dstPos + 1),
                    readUInt8(m.rgbaData, srcPos), dstPos + 2),
                  readUInt8(m.rgbaData, srcPos + 3), dstPos + 3)
       IN  [err |-> w.err, buf |-> w.buf, rgbaData |-> m.rgbaData]

\* convertPixel swapping the red and blue bytes of the pixel in rgbaData
\* itself, and then copying the pixel to buf
convertPixel_inPlace(m, srcPos, dstPos) ==
  IF ~CanRead(m.rgbaData, srcPos) \/ ~CanRead(m.rgbaData, srcPos + 1)
       \/ ~CanRead(m.rgbaData, srcPos + 2) \/ ~CanRead(m.rgbaData, srcPos + 3)
  THEN [m EXCEPT !.err = ERR_OUT_OF_RANGE, !.buf = <<>>]
  ELSE LET s == writeUInt8(
                  writeUInt8(Ok(m.rgbaData), readUInt8(m.rgbaData, srcPos + 2),
                             srcPos),
                  readUInt8(m.rgbaData, srcPos), srcPos + 2)
           w == writeUInt8(
                  writeUInt8(
                    writeUInt8(
                      writeUInt8(Ok(m.buf), readUInt8(s.buf, srcPos), dstPos),
                      readUInt8(s.buf, srcPos + 1), dstPos + 1),
                    readUInt8(s.buf, srcPos + 2), dstPos + 2),
                  readUInt8(s.buf, srcPos + 3), dstPos + 3)
       IN  [err |-> w.err, buf |-> w.buf, rgbaData |-> s.buf]

\* the loop body, index.ts 222-233: four reads of rgbaData at srcPos, four
\* writes to buf at dstPos in the order b, g, r, a
convertPixel(m, srcPos, dstPos) ==
  IF ~CanRead(m.rgbaData, srcPos) \/ ~CanRead(m.rgbaData, srcPos + 1)
       \/ ~CanRead(m.rgbaData, srcPos + 2) \/ ~CanRead(m.rgbaData, srcPos + 3)
  THEN [m EXCEPT !.err = ERR_OUT_OF_RANGE, !.buf = <<>>]
  ELSE LET w == writeUInt8(
                  writeUInt8(
                    writeUInt8(
                      writeUInt8(Ok(m.buf), readUInt8(m.rgbaData, srcPos + 2),
                                 dstPos),
                      readUInt8(m.rgbaData, srcPos + 1), dstPos + 1),
                    readUInt8(m.rgbaData, srcPos), dstPos + 2),
                  readUInt8(m.rgbaData, srcPos + 3), dstPos + 3)
       IN  [err |-> w.err, buf |-> w.buf, rgbaData |-> m.rgbaData]

\* the inner loop, index.ts 221-234, in the row at offset `row`: its
\* iterations lo..hi-1 in order, iteration k being col = k * bpp.  The range
\* is run as its first half and then, unless that threw, its second half.
RECURSIVE convertRow(_, _, _, _, _, _, _)
convertRow(cols, rows, bpp, row, lo, hi, m) ==
  IF hi <= lo THEN m
  ELSE IF hi = lo + 1
       THEN convertPixel(m, row + lo * bpp, (rows - cols) - row + lo * bpp)
       ELSE LET mid == (lo + hi) \div 2
                first == convertRow(cols, rows, bpp, row, lo, mid, m)
            IN  IF first.err # "none" THEN first
                ELSE convertRow(cols, rows, bpp, row, mid, hi, first)

\* the outer loop, index.ts 220-235: its iterations lo..hi-1 in order,
\* iteration k being row = k * cols, each running the inner loop over the
\* `width` columns
RECURSIVE convertLoop(_, _, _, _, _, _, _)
convertLoop(width, cols, rows, bpp, lo, hi, m) ==
  IF hi <= lo THEN m
  ELSE IF hi = lo + 1
       THEN convertRow(cols, rows, bpp, lo * cols, 0, width, m)
       ELSE LET mid == (lo + hi) \div 2
                first == convertLoop(width, cols, rows, bpp, lo, mid, m)
            IN  IF first.err # "none" THEN first
                ELSE convertLoop(width, cols, rows, bpp, mid, hi, first)

\* the two buffers when convertRgbaToBgr ends, index.ts 214-237.  row runs
\* over 0, cols, ... below rows = height * cols: height iterations when
\* cols > 0 and none when cols = 0; col runs over 0, bpp, ... below
\* cols = width * bpp: width iterations
convertBuffers(rgbaData, width, height, bpp) ==
  LET cols == width * bpp
      rows == height * cols
  IN  convertLoop(width, cols, rows, bpp, 0, IF rows > 0 THEN height ELSE 0,
                  [err |-> "none", buf |-> alloc(Len(rgbaData)),
                   rgbaData |-> rgbaData])

\* convertRgbaToBgr allocating the width * height * bpp bytes the dimensions
\* ask for, not the length of the input
convertRgbaToBgr_allocBySize(rgbaData, width, height, bpp) ==
  LET cols == width * bpp
      rows == height * cols
      m == convertLoop(width, cols, rows, bpp, 0,
                       IF rows > 0 THEN height ELSE 0,
                       [err |-> "none", buf |-> alloc(rows),
                        rgbaData |-> rgbaData])
  IN  [err |-> m.err, buf |-> m.buf]

\* convertRgbaToBgr returns buf, index.ts 237, or throws
convertRgbaToBgr(rgbaData, width, height, bpp) ==
  LET m == convertBuffers(rgbaData, width, height, bpp)
  IN  [err |-> m.err, buf |-> m.buf]

(***************************************************************************)
(* parsePng, index.ts 126-141.  The PNG codec (sharp) is a collaborator:   *)
(* a PNG buffer is modelled by what sharp reads from it, its metadata      *)
(* width and height and the raw pixel bytes it decodes to (len of them,    *)
(* drawn from a seed), or by the fact that sharp rejects it.               *)
(***************************************************************************)
ERR_PNG == "ERR_PNG"

NoImage == [width |-> 0, height |-> 0, bpp |-> 0, data |-> <<>>]

\* pixel bytes that differ from byte to byte, from pixel to pixel and from
\* row to row
Pixels(len, seed) == [i \in 1..len |-> (seed + 5 * i + (i \div 256)) % 256]

\* sharp(pngBuffer).ensureAlpha().raw().toBuffer(), index.ts 133
Raw(pngBuffer) == Pixels(pngBuffer.len, pngBuffer.seed)

\* the object parsePng resolves with, index.ts 135-140
parsePng(pngBuffer) ==
  [width |-> pngBuffer.width, height |-> pngBuffer.height, bpp |-> 4,
   data |-> Raw(pngBuffer)]

(***************************************************************************)
(* generateIco after its await, index.ts 248-287: one synchronous run.     *)
(***************************************************************************)
\* directoryLoop with the offset advanced by the pixel data's length alone
RECURSIVE directoryLoop_pixelsOnly(_, _, _, _)
directoryLoop_pixelsOnly(images, i, offset, acc) ==
  IF acc.err # "none" \/ i > Len(images) THEN acc
  ELSE LET img == images[i]
           bitmapSize == 40 + Len(img.data)
           dir == createIcoDirectory(img.width, img.height, img.bpp,
                                     bitmapSize, offset)
       IN  directoryLoop_pixelsOnly(images, i + 1, offset + Len(img.data),
             IF dir.err # "none" THEN dir ELSE Ok(acc.buf \o dir.buf))

\* the loop of index.ts 259-270 from image i on: acc holds the directory
\* entries made so far, one after the other
RECURSIVE directoryLoop(_, _, _, _)
directoryLoop(images, i, offset, acc) ==
  IF acc.err # "none" \/ i > Len(images) THEN acc
  ELSE LET img == images[i]
           bitmapSize == 40 + Len(img.data)
           dir == createIcoDirectory(img.width, img.height, img.bpp,
                                     bitmapSize, offset)
       IN  directoryLoop(images, i + 1, offset + bitmapSize,
             IF dir.err # "none" THEN dir ELSE Ok(acc.buf \o dir.buf))

\* bitmapLoop with each image's pixels pushed before its header
RECURSIVE bitmapLoop_pixelsFirst(_, _, _)
bitmapLoop_pixelsFirst(images, i, acc) ==
  IF acc.err # "none" \/ i > Len(images) THEN acc
  ELSE LET img == images[i]
           bitmapHeader == createBitmapInfoHeader(img.width, img.height,
                                                  img.bpp, Len(img.data))
           bgrData == convertRgbaToBgr(img.data, img.width, img.height,
                                       img.bpp)
       IN  bitmapLoop_pixelsFirst(images, i + 1,
             IF bitmapHeader.err # "none" THEN bitmapHeader
             ELSE IF bgrData.err # "none" THEN bgrData
             ELSE Ok(acc.buf \o bgrData.buf \o bitmapHeader.buf))

\* the loop of index.ts 275-284 from image i on: acc holds the bitmap
\* headers and converted pixels pushed so far
RECURSIVE bitmapLoop(_, _, _)
bitmapLoop(images, i, acc) ==
  IF acc.err # "none" \/ i > Len(images) THEN acc
  ELSE LET img == images[i]
           bitmapHeader == createBitmapInfoHeader(img.width, img.height,
                                                  img.bpp, Len(img.data))
           bgrData == convertRgbaToBgr(img.data, img.width, img.height,
                                       img.bpp)
       IN  bitmapLoop(images, i + 1,
             IF bitmapHeader.err # "none" THEN bitmapHeader
             ELSE IF bgrData.err # "none" THEN bgrData
             ELSE Ok(acc.buf \o bitmapHeader.buf \o bgrData.buf))

\* the data buffers of the images as the loop of index.ts 275-284 leaves
\* them, from image i on: each is the argument of one convertRgbaToBgr call
RECURSIVE bitmapLoopImages(_, _)
bitmapLoopImages(images, i) ==
  IF i > Len(images) THEN images
  ELSE LET img == images[i]
           bitmapHeader == createBitmapInfoHeader(img.width, img.height,
                                                  img.bpp, Len(img.data))
           m == convertBuffers(img.data, img.width, img.height, img.bpp)
           next == [images EXCEPT ![i].data = m.rgbaData]
       IN  IF bitmapHeader.err # "none" THEN images
           ELSE IF m.err # "none" THEN next
           ELSE bitmapLoopImages(next, i + 1)

\* the images array when generateIco ends, index.ts 248-287: the bitmap
\* loop runs unless the header or a directory entry threw
imagesAfter(images) ==
  LET header == createIcoHeader(Len(images))
      directories == IF header.err # "none" THEN header
                     ELSE directoryLoop(images, 1, 6 + 16 * Len(images),
                                        Ok(<<>>))
  IN  IF directories.err # "none" THEN images
      ELSE bitmapLoopImages(images, 1)

\* assemble with the first offset placed after one directory entry
assemble_oneEntry(images) ==
  LET header == createIcoHeader(Len(images))
      directories == IF header.err # "none" THEN header
                     ELSE directoryLoop(images, 1, 6 + 16, Ok(<<>>))
      bitmaps == IF directories.err # "none" THEN directories
                 ELSE bitmapLoop(images, 1, Ok(<<>>))
  IN  IF bitmaps.err # "none" THEN bitmaps
      ELSE Ok(header.buf \o directories.buf \o bitmaps.buf)

\* index.ts 248-287: header, directory entries, bitmaps, Buffer.concat
assemble(images) ==
  LET header == createIcoHeader(Len(images))
      directories == IF header.err # "none" THEN header
                     ELSE directoryLoop(images, 1, 6 + 16 * Len(images),
                                        Ok(<<>>))
      bitmaps == IF directories.err # "none" THEN directories
                 ELSE bitmapLoop(images, 1, Ok(<<>>))
  IN  IF bitmaps.err # "none" THEN bitmaps
      ELSE Ok(header.buf \o directories.buf \o bitmaps.buf)

(***************************************************************************)
(* The inputs the model draws.                                             *)
(***************************************************************************)
\* a PNG buffer of a w x h image that decodes to len raw bytes
Png(w, h, len, seed) ==
  [valid |-> TRUE, width |-> w, height |-> h, len |-> len, seed |-> seed]

\* a buffer sharp cannot read
CorruptPng == [valid |-> FALSE, width |-> 0, height |-> 0, len |-> 0, seed |-> 0]

\* RGBA images, four raw bytes per pixel: every shape up to 2 x 2, and the
\* 1 x 1 image with each pixel content
SmallPngs ==
  {Png(w, h, w * h * 4, 0) : w \in {1, 2}, h \in {1, 2}}
    \cup {Png(1, 1, 4, s) : s \in 0..MaxSeed}

\* raw data shorter and longer than width * height * 4; a buffer sharp
\* rejects
BadPngs == {Png(2, 2, 8, 0), Png(1, 1, 8, 0), CorruptPng}

\* the sizes at the limit of the directory's one-byte fields, and past it
EdgePngs ==
  {Png(256, 1, 1024, 0), Png(1, 256, 1024, 0), Png(255, 1, 1020, 0),
   Png(257, 1, 1028, 0)}

Pngs == SmallPngs \cup BadPngs

RECURSIVE ListsOf(_, _)
ListsOf(S, n) ==
  IF n = 0 THEN {<<>>}
  ELSE LET shorter == ListsOf(S, n - 1)
       IN  shorter \cup {Append(l, x) : l \in {m \in shorter : Len(m) = n - 1},
                                         x \in S}

\* the lists with an image of an edge size: alone, before and after a small
\* image, and with another one
EdgeLists ==
  {<<e>> : e \in EdgePngs}
    \cup {<<e, Png(2, 2, 16, 0)>> : e \in EdgePngs}
    \cup {<<Png(2, 2, 16, 0), e>> : e \in EdgePngs}
    \cup {<<e, f>> : e \in EdgePngs, f \in EdgePngs}

InputLists == ListsOf(Pngs, MaxImages) \cup EdgeLists

(***************************************************************************)
(* The state.  generateIco is an async function: a call is suspended at    *)
(* its await (index.ts 246) while the parsePng tasks settle one by one in  *)
(* any order, and then runs to its end.  Calls holds two call slots; the   *)
(* exported synchronous functions are called in one step each, from the    *)
(* initial state.  The command-line program (index.ts 373-380) is a        *)
(* process with its arguments, the file system it works on, its console    *)
(* and its exit code; it makes its generateIco call in slot 1.             *)
(***************************************************************************)
Calls == {1, 2}

VARIABLES
  pc,          \* pc[c]: "idle", "parsing" (at the await), "done", "failed"
  pngBuffers,  \* pngBuffers[c]: the argument of call c
  tasks,       \* tasks[c][i]: "pending", "fulfilled" or "rejected"
  images,      \* images[c][i]: the value Promise.all holds for task i
  rejected,    \* rejected[c]: the task whose rejection rejected Promise.all, or 0
  order,       \* order[c]: the tasks of call c in the order they settled
  result,      \* result[c]: what the call's promise settled with
  unit,        \* the last call of a synchronous function: its buffer argument
               \* before (data) and after the call, and what it returned
  argv,        \* process.argv.slice(2)
  cliPc,       \* "off", "start", "resizing", "encoding", "rejected", "exited"
  opts,        \* what parseArgs returned: emoji, outDir, generateAll
  fs,          \* the file system: dirs, files, and the log of the changes made
  resize,      \* resize[i]: "pending", "fulfilled" or "rejected", per size
  buffers,     \* buffers[i]: the {size, buffer} Promise.all holds for size i
  sizeMap,     \* the Map of generateFavicons, from size to PNG buffer
  error,       \* what the promise of generateFavicons rejected with
  console,     \* the lines written with console.log and console.error
  exitCode     \* the exit code of the process

icoVars == <<pc, pngBuffers, tasks, images, rejected, order, result, unit>>

cliVars ==
  <<argv, cliPc, opts, fs, resize, buffers, sizeMap, error, console,
    exitCode>>

vars ==
  <<pc, pngBuffers, tasks, images, rejected, order, result, unit, argv, cliPc,
    opts, fs, resize, buffers, sizeMap, error, console, exitCode>>

NoResult == [err |-> "pending", buf |-> <<>>]

NoCall ==
  [fn |-> "none", data |-> <<>>, args |-> <<>>, ret |-> NoResult,
   after |-> <<>>]

\* an empty working directory: "." alone, the path of no segments
FsEmpty == [dirs |-> {<<>>}, files |-> <<>>, log |-> <<>>]

\* NoOpts with a directory named icons as the default output directory
NoOpts_icons == [emoji |-> "", outDir |-> "icons", generateAll |-> FALSE]

\* the locals of parseArgs before its loop, index.ts 41-43
NoOpts == [emoji |-> "", outDir |-> ".", generateAll |-> FALSE]

\* no generateIco call and no call of a synchronous function made yet
NoCalls ==
  /\ pc = [c \in Calls |-> "idle"]
  /\ pngBuffers = [c \in Calls |-> <<>>]
  /\ tasks = [c \in Calls |-> <<>>]
  /\ images = [c \in Calls |-> <<>>]
  /\ rejected = [c \in Calls |-> 0]
  /\ order = [c \in Calls |-> <<>>]
  /\ result = [c \in Calls |-> NoResult]
  /\ unit = NoCall

\* the locals of the command-line program before it runs
NotStarted ==
  /\ opts = NoOpts
  /\ resize = <<>>
  /\ buffers = <<>>
  /\ sizeMap = <<>>
  /\ error = "none"
  /\ console = <<>>
  /\ exitCode = 0

\* the module imported as a library (require.main # module, index.ts 374):
\* the command-line program does not run
Init ==
  /\ NoCalls
  /\ NotStarted
  /\ argv = <<>>
  /\ cliPc = "off"
  /\ fs = FsEmpty

\* index.ts 244-246: generateIco(bufs) starts one parsePng per buffer and
\* awaits Promise.all
Call(c, bufs) ==
  /\ pc[c] = "idle"
  /\ unit = NoCall
  /\ pc' = [pc EXCEPT ![c] = "parsing"]
  /\ pngBuffers' = [pngBuffers EXCEPT ![c] = bufs]
  /\ tasks' = [tasks EXCEPT ![c] = [i \in 1..Len(bufs) |-> "pending"]]
  /\ images' = [images EXCEPT ![c] = [i \in 1..Len(bufs) |-> NoImage]]
  /\ UNCHANGED <<rejected, order, result, unit>>

\* ParseResolve with the value stored at the next free place, in the order
\* the tasks settle
ParseResolve_push(c, i) ==
  /\ pc[c] \in {"parsing", "failed"}
  /\ i \in 1..Len(tasks[c])
  /\ tasks[c][i] = "pending"
  /\ pngBuffers[c][i].valid
  /\ tasks' = [tasks EXCEPT ![c][i] = "fulfilled"]
  /\ images' = [images EXCEPT ![c][Len(order[c]) + 1] =
                                 parsePng(pngBuffers[c][i])]
  /\ order' = [order EXCEPT ![c] = Append(@, i)]
  /\ UNCHANGED <<pc, pngBuffers, rejected, result, unit>>

\* ParseResolve with one array of images for all the calls, the one of
\* call 1
ParseResolve_shared(c, i) ==
  /\ pc[c] \in {"parsing", "failed"}
  /\ i \in 1..Len(tasks[c])
  /\ tasks[c][i] = "pending"
  /\ pngBuffers[c][i].valid
  /\ tasks' = [tasks EXCEPT ![c][i] = "fulfilled"]
  /\ images' = [images EXCEPT ![1] =
                  IF i \in DOMAIN @
                  THEN [@ EXCEPT ![i] = parsePng(pngBuffers[c][i])]
                  ELSE Append(@, parsePng(pngBuffers[c][i]))]
  /\ order' = [order EXCEPT ![c] = Append(@, i)]
  /\ UNCHANGED <<pc, pngBuffers, rejected, result, unit>>

\* index.ts 132-140: task i of call c resolves; Promise.all stores the value
\* at index i
ParseResolve(c, i) ==
  /\ pc[c] \in {"parsing", "failed"}
  /\ i \in 1..Len(tasks[c])
  /\ tasks[c][i] = "pending"
  /\ pngBuffers[c][i].valid
  /\ tasks' = [tasks EXCEPT ![c][i] = "fulfilled"]
  /\ images' = [images EXCEPT ![c][i] = parsePng(pngBuffers[c][i])]
  /\ order' = [order EXCEPT ![c] = Append(@, i)]
  /\ UNCHANGED <<pc, pngBuffers, rejected, result, unit>>

\* index.ts 132-133: sharp rejects buffer i; the first rejection rejects
\* Promise.all
ParseReject(c, i) ==
  /\ pc[c] \in {"parsing", "failed"}
  /\ i \in 1..Len(tasks[c])
  /\ tasks[c][i] = "pending"
  /\ ~pngBuffers[c][i].valid
  /\ tasks' = [tasks EXCEPT ![c][i] = "rejected"]
  /\ rejected' = [rejected EXCEPT ![c] = IF rejected[c] = 0 THEN i ELSE @]
  /\ order' = [order EXCEPT ![c] = Append(@, i)]
  /\ UNCHANGED <<pc, pngBuffers, images, result, unit>>

AllFulfilled(c) == \A i \in 1..Len(tasks[c]) : tasks[c][i] = "fulfilled"

\* Resume waiting for every task to settle, as under Promise.allSettled, and
\* assembling the images of the tasks that were fulfilled
Resume_skipRejected(c) ==
  /\ pc[c] = "parsing"
  /\ \A i \in 1..Len(tasks[c]) : tasks[c][i] # "pending"
  /\ LET ok == SelectSeq([i \in 1..Len(tasks[c]) |-> i],
                         LAMBDA i : tasks[c][i] = "fulfilled")
         r == assemble([k \in 1..Len(ok) |-> images[c][ok[k]]])
     IN  /\ result' = [result EXCEPT ![c] = r]
         /\ pc' = [pc EXCEPT ![c] = IF r.err = "none" THEN "done" ELSE "failed"]
  /\ images' = images
  /\ UNCHANGED <<pngBuffers, tasks, rejected, order, unit>>

\* index.ts 246-287: the await returns the images and the rest of
\* generateIco runs, or the await throws the rejection
Resume(c) ==
  /\ pc[c] = "parsing"
  /\ rejected[c] # 0 \/ AllFulfilled(c)
  /\ LET r == IF rejected[c] # 0 THEN Throw(ERR_PNG) ELSE assemble(images[c])
     IN  /\ result' = [result EXCEPT ![c] = r]
         /\ pc' = [pc EXCEPT ![c] = IF r.err = "none" THEN "done" ELSE "failed"]
  /\ images' = IF rejected[c] # 0 THEN images
               ELSE [images EXCEPT ![c] = imagesAfter(@)]
  /\ UNCHANGED <<pngBuffers, tasks, rejected, order, unit>>

\* a behaviour makes one call of a synchronous function, or generateIco calls
Quiet == unit = NoCall /\ \A c \in Calls : pc[c] = "idle"

\* a call createIcoHeader(count)
CallCreateIcoHeader(count) ==
  /\ Quiet
  /\ unit' = [fn |-> "createIcoHeader", data |-> <<>>, args |-> <<count>>,
              ret |-> createIcoHeader(count), after |-> <<>>]
  /\ UNCHANGED <<pc, pngBuffers, tasks, images, rejected, order, result>>

\* a call createIcoDirectory(width, height, bpp, size, offset)
CallCreateIcoDirectory(width, height, bpp, size, offset) ==
  /\ Quiet
  /\ unit' = [fn |-> "createIcoDirectory", data |-> <<>>,
              args |-> <<width, height, bpp, size, offset>>,
              ret |-> createIcoDirectory(width, height, bpp, size, offset),
              after |-> <<>>]
  /\ UNCHANGED <<pc, pngBuffers, tasks, images, rejected, order, result>>

\* a call createBitmapInfoHeader(width, height, bpp, dataSize)
CallCreateBitmapInfoHeader(width, height, bpp, dataSize) ==
  /\ Quiet
  /\ unit' = [fn |-> "createBitmapInfoHeader", data |-> <<>>,
              args |-> <<width, height, bpp, dataSize>>,
              ret |-> createBitmapInfoHeader(width, height, bpp, dataSize),
              after |-> <<>>]
  /\ UNCHANGED <<pc, pngBuffers, tasks, images, rejected, order, result>>

\* a call convertRgbaToBgr(rgbaData, width, height, bpp)
CallConvertRgbaToBgr(rgbaData, width, height, bpp) ==
  /\ Quiet
  /\ unit' = [fn |-> "convertRgbaToBgr", data |-> rgbaData,
              args |-> <<width, height, bpp>>,
              ret |-> convertRgbaToBgr(rgbaData, width, height, bpp),
              after |-> convertBuffers(rgbaData, width, height, bpp).rgbaData]
  /\ UNCHANGED <<pc, pngBuffers, tasks, images, rejected, order, result>>

\* the arguments the synchronous calls are made with
Counts == {0, 1, 2, 3, 5, 10, 255, 256, 65535, 65536}

EdgeDims == {0, 1, 16, 255, 256, 257, 512}

AllDims == 0..257

\* buffer lengths around the width * height * bpp the dimensions ask for
Lengths(n) == {m \in {n - 4, n, n + 4} : m >= 0}

\* the bytes per pixel convertRgbaToBgr is called with
Bpps == {3, 4, 5}

UnitCalls ==
  \/ \E count \in Counts : CallCreateIcoHeader(count) /\ UNCHANGED cliVars
  \/ \E w \in AllDims, h \in EdgeDims, so \in {<<1000, 50>>, <<2000, 100>>} :
       \/ CallCreateIcoDirectory(w, h, 4, so[1], so[2]) /\ UNCHANGED cliVars
       \/ CallCreateIcoDirectory(h, w, 4, so[1], so[2]) /\ UNCHANGED cliVars
  \/ \E w \in {1, 16, 32, 256}, h \in {1, 16, 32, 256},
        dataSize \in {0, 1024, 2048} :
       CallCreateBitmapInfoHeader(w, h, 4, dataSize) /\ UNCHANGED cliVars
  \/ \E w \in 0..MaxDim, h \in 0..MaxDim, seed \in 0..MaxSeed, bpp \in Bpps :
       \E len \in Lengths(w * h * bpp) :
         CallConvertRgbaToBgr(Pixels(len, seed), w, h, bpp)
           /\ UNCHANGED cliVars

\* the inputs of two concurrent generateIco calls: the lists of two images,
\* and the lists with a buffer sharp rejects
PairLists ==
  ListsOf({Png(1, 1, 4, 0), Png(2, 1, 8, 0)}, MaxImages)
    \cup {<<CorruptPng>>, <<Png(1, 1, 4, 0), CorruptPng>>,
          <<CorruptPng, Png(1, 1, 4, 0)>>}

Step(c) ==
  \/ \E bufs \in InputLists : Call(c, bufs) /\ UNCHANGED cliVars
  \/ \E i \in 1..Len(tasks[c]) : ParseResolve(c, i) /\ UNCHANGED cliVars
  \/ \E i \in 1..Len(tasks[c]) : ParseReject(c, i) /\ UNCHANGED cliVars
  \/ Resume(c) /\ UNCHANGED cliVars

\* one generateIco call at a time, and the synchronous functions
Next == Step(1) \/ UnitCalls

Spec == Init /\ [][Next]_vars

\* two generateIco calls in flight at once, their steps interleaved
PairStep(c) ==
  \/ \E bufs \in PairLists : Call(c, bufs) /\ UNCHANGED cliVars
  \/ \E i \in 1..Len(tasks[c]) : ParseResolve(c, i) /\ UNCHANGED cliVars
  \/ \E i \in 1..Len(tasks[c]) : ParseReject(c, i) /\ UNCHANGED cliVars
  \/ Resume(c) /\ UNCHANGED cliVars

PairNext == \E c \in Calls : PairStep(c)

SpecPair == Init /\ [][PairNext]_vars

(***************************************************************************)
(* Reading a container, as the tests of generateIco and a decoder do.      *)
(***************************************************************************)
Settled(c) == pc[c] \in {"done", "failed"}

Returned(c) == pc[c] = "done"

\* the bytes generateIco returned
Out(c) == result[c].buf

\* the number of images handed to call c
N(c) == Len(pngBuffers[c])

\* directory entry i (from 0) of container b starts at byte 6 + 16 * i
EntryAt(i) == 6 + 16 * i

DirWidth(b, i) == readUInt8(b, EntryAt(i))

DirHeight(b, i) == readUInt8(b, EntryAt(i) + 1)

DataSize(b, i) == readUInt32LE(b, EntryAt(i) + 8)

DataOffset(b, i) == readUInt32LE(b, EntryAt(i) + 12)

\* bytes lo .. lo + n - 1 (offsets from 0) of b
Bytes(b, lo, n) == SubSeq(b, lo + 1, lo + n)

\* a decoded image whose pixel buffer agrees with its dimensions
ValidPng(p) ==
  /\ p.valid
  /\ p.width \in 1..256
  /\ p.height \in 1..256
  /\ p.len = p.width * p.height * 4

AllValid(c) == \A i \in 1..N(c) : ValidPng(pngBuffers[c][i])

(***************************************************************************)
(* The file system, as far as index.ts uses fs and path.  A path is the    *)
(* sequence of its segments below the working directory: "." is <<>>,      *)
(* "a/b" is <<"a", "b">>.                                                  *)
(***************************************************************************)
\* the segments of a directory argument, over the arguments the model draws
Segments(dir) ==
  CASE dir = "." -> <<>>
    [] dir = "a/b" -> <<"a", "b">>
    [] OTHER -> <<dir>>

\* path.join(dir, name) for a path dir and a file or directory name
join(dir, name) == Append(dir, name)

\* the path itself and the directories above it
Prefixes(path) == {SubSeq(path, 1, k) : k \in 0..Len(path)}

Parent(path) == SubSeq(path, 1, Len(path) - 1)

FsOk(f) == [err |-> "none", fs |-> f]

FsThrow(e, f) == [err |-> e, fs |-> f]

\* fs.existsSync(path)
existsSync(f, path) == path \in f.dirs \/ path \in DOMAIN f.files

\* fs.mkdirSync(path, { recursive }) after r, unless r threw
mkdirSync(r, path, recursive) ==
  IF r.err # "none" THEN r
  ELSE IF recursive
       THEN IF \E q \in Prefixes(path) : q \in DOMAIN r.fs.files
            THEN FsThrow("ENOTDIR", r.fs)
            ELSE FsOk([r.fs EXCEPT !.dirs = @ \cup Prefixes(path),
                                   !.log = Append(@, <<"mkdir", path>>)])
       ELSE IF existsSync(r.fs, path) THEN FsThrow("EEXIST", r.fs)
            ELSE IF Parent(path) \notin r.fs.dirs THEN FsThrow("ENOENT", r.fs)
            ELSE FsOk([r.fs EXCEPT !.dirs = @ \cup {path},
                                   !.log = Append(@, <<"mkdir", path>>)])

\* fs.writeFileSync(path, data) after r, unless r threw
writeFileSync(r, path, data) ==
  IF r.err # "none" THEN r
  ELSE IF Parent(path) \notin r.fs.dirs THEN FsThrow("ENOENT", r.fs)
       ELSE IF path \in r.fs.dirs THEN FsThrow("EISDIR", r.fs)
       ELSE FsOk([r.fs EXCEPT !.files = (path :> data) @@ @,
                              !.log = Append(@, <<"write", path>>)])

(***************************************************************************)
(* parseArgs and printHelp, index.ts 15-65.                                *)
(***************************************************************************)
\* args[i].startsWith("-"), over the arguments the model draws
startsWithDash(arg) == arg \in {"--out", "-o", "--all", "--help", "-h", "-x"}

\* args.includes(arg)
includes(args, arg) == \E i \in 1..Len(args) : args[i] = arg

\* parseLoop without the i++ of index.ts 49: the argument after --out or -o
\* is the output directory and is then looked at again
RECURSIVE parseLoop_noSkip(_, _, _)
parseLoop_noSkip(args, i, o) ==
  IF i > Len(args) THEN o
  ELSE IF args[i] = "--out" \/ args[i] = "-o"
       THEN IF i + 1 <= Len(args)
            THEN parseLoop_noSkip(args, i + 1,
                                  [o EXCEPT !.outDir = args[i + 1]])
            ELSE parseLoop_noSkip(args, i + 1, o)
       ELSE IF args[i] = "--all"
            THEN parseLoop_noSkip(args, i + 1, [o EXCEPT !.generateAll = TRUE])
            ELSE IF o.emoji = "" /\ ~startsWithDash(args[i])
                 THEN parseLoop_noSkip(args, i + 1,
                                       [o EXCEPT !.emoji = args[i]])
                 ELSE parseLoop_noSkip(args, i + 1, o)

\* the loop of index.ts 45-56 from argument i on (i counts from 1)
RECURSIVE parseLoop(_, _, _)
parseLoop(args, i, o) ==
  IF i > Len(args) THEN o
  ELSE IF args[i] = "--out" \/ args[i] = "-o"
       THEN IF i + 1 <= Len(args)
            THEN parseLoop(args, i + 2, [o EXCEPT !.outDir = args[i + 1]])
            ELSE parseLoop(args, i + 1, o)
       ELSE IF args[i] = "--all"
            THEN parseLoop(args, i + 1, [o EXCEPT !.generateAll = TRUE])
            ELSE IF o.emoji = "" /\ ~startsWithDash(args[i])
                 THEN parseLoop(args, i + 1, [o EXCEPT !.emoji = args[i]])
                 ELSE parseLoop(args, i + 1, o)

\* parseArgs without the check of index.ts 58-62: an empty emoji is returned
parseArgs_noEmojiCheck(args) ==
  IF Len(args) = 0 \/ includes(args, "--help") \/ includes(args, "-h")
  THEN [exits |-> TRUE, code |-> 0, console |-> <<"help">>, opts |-> NoOpts]
  ELSE [exits |-> FALSE, code |-> 0, console |-> <<>>,
        opts |-> parseLoop(args, 1, NoOpts)]

\* parseArgs looking for the help flag in the first argument alone
parseArgs_helpFirst(args) ==
  IF Len(args) = 0 \/ args[1] = "--help" \/ args[1] = "-h"
  THEN [exits |-> TRUE, code |-> 0, console |-> <<"help">>, opts |-> NoOpts]
  ELSE LET o == parseLoop(args, 1, NoOpts)
       IN  IF o.emoji = ""
           THEN [exits |-> TRUE, code |-> 1,
                 console |-> <<"Error: Emoji is required",
                               "Run with --help for usage information">>,
                 opts |-> NoOpts]
           ELSE [exits |-> FALSE, code |-> 0, console |-> <<>>, opts |-> o]

\* parseArgs: exits says whether process.exit was called, with which code
\* and after which console lines; opts is what it returns otherwise
parseArgs(args) ==
  IF Len(args) = 0 \/ includes(args, "--help") \/ includes(args, "-h")
  THEN [exits |-> TRUE, code |-> 0, console |-> <<"help">>, opts |-> NoOpts]
  ELSE LET o == parseLoop(args, 1, NoOpts)
       IN  IF o.emoji = ""
           THEN [exits |-> TRUE, code |-> 1,
                 console |-> <<"Error: Emoji is required",
                               "Run with --help for usage information">>,
                 opts |-> NoOpts]
           ELSE [exits |-> FALSE, code |-> 0, console |-> <<>>, opts |-> o]

(***************************************************************************)
(* emojiToImageCanvas and generateAllSizesOptimized, index.ts 70-121.      *)
(* The canvas and sharp are collaborators: the PNG rendered for an emoji   *)
(* decodes to pixels that depend on the emoji, and a resize to size gives  *)
(* a size x size PNG of the same emoji.                                    *)
(***************************************************************************)
SIZES ==
  [favicon |-> <<16, 32, 48>>,
   apple |-> <<57, 60, 72, 76, 114, 120, 144, 152, 180>>]

HIGH_RES_SIZE == 512

\* index.ts 98
allSizes == SIZES.favicon \o SIZES.apple

\* the pixels drawn for an emoji
EmojiSeed(emoji) == IF emoji = "E" THEN 0 ELSE 1

emojiToImageCanvas(emoji, size) ==
  Png(size, size, size * size * 4, EmojiSeed(emoji))

\* sharp(buffer).resize(size, size, ...).png().toBuffer(), index.ts 103-109
resizePng(buffer, size) == Png(size, size, size * size * 4, buffer.seed)

NoBuffer == [size |-> 0, buffer |-> CorruptPng]

\* index.ts 115-118: buffers.forEach(sizeMap.set) from entry i on
RECURSIVE setAll(_, _, _)
setAll(bufs, i, map) ==
  IF i > Len(bufs) THEN map
  ELSE setAll(bufs, i + 1, (bufs[i].size :> bufs[i].buffer) @@ map)

\* sizeMap.get(size)!: a missing size gives undefined, which no PNG reader
\* accepts
get(map, size) == IF size \in DOMAIN map THEN map[size] ELSE CorruptPng

(***************************************************************************)
(* generateFavicons, index.ts 290-371.                                     *)
(***************************************************************************)
\* pngName with the size once: favicon-16.png
pngName_sizeOnce(prefix, size) == prefix \o "-" \o ToString(size) \o ".png"

\* favicon-16x16.png, apple-touch-icon-57x57.png
pngName(prefix, size) ==
  prefix \o "-" \o ToString(size) \o "x" \o ToString(size) \o ".png"

\* sizes.forEach(size => writeFileSync(join(dir, name), sizeMap.get(size)))
\* from size i on, index.ts 312-318 and 333-339
RECURSIVE writePngs(_, _, _, _, _, _)
writePngs(r, dir, prefix, sizes, i, map) ==
  IF i > Len(sizes) THEN r
  ELSE writePngs(writeFileSync(r, join(dir, pngName(prefix, sizes[i])),
                               get(map, sizes[i])),
                 dir, prefix, sizes, i + 1, map)

\* makeOutDir without { recursive: true }
makeOutDir_notRecursive(f, outDir) ==
  IF existsSync(f, Segments(outDir)) THEN FsOk(f)
  ELSE mkdirSync(FsOk(f), Segments(outDir), FALSE)

\* index.ts 296-298
makeOutDir(f, outDir) ==
  IF existsSync(f, Segments(outDir)) THEN FsOk(f)
  ELSE mkdirSync(FsOk(f), Segments(outDir), TRUE)

\* saveFavicons saving the PNG favicons whether or not --all is set
saveFavicons_always(f, outDir, generateAll, map) ==
  LET faviconDir == join(Segments(outDir), "favicons")
      made == IF existsSync(f, faviconDir) THEN FsOk(f)
              ELSE mkdirSync(FsOk(f), faviconDir, TRUE)
  IN  writePngs(made, faviconDir, "favicon", SIZES.favicon, 1, map)

\* index.ts 307-319: the PNG favicons, when --all is set
saveFavicons(f, outDir, generateAll, map) ==
  IF ~generateAll THEN FsOk(f)
  ELSE LET faviconDir == join(Segments(outDir), "favicons")
           made == IF existsSync(f, faviconDir) THEN FsOk(f)
                   ELSE mkdirSync(FsOk(f), faviconDir, TRUE)
       IN  writePngs(made, faviconDir, "favicon", SIZES.favicon, 1, map)

\* index.ts 323-339: favicon.ico and, when --all is set, the Apple touch
\* icons in their directory
saveIcoAndApple(f, outDir, generateAll, map, icoBuffer) ==
  LET ico == writeFileSync(FsOk(f), join(Segments(outDir), "favicon.ico"),
                           icoBuffer)
      appleDir == join(Segments(outDir), "apple-touch-icon")
      made == IF existsSync(ico.fs, appleDir) THEN ico
              ELSE mkdirSync(ico, appleDir, FALSE)
  IN  IF ~generateAll THEN ico
      ELSE writePngs(made, appleDir, "apple-touch-icon", SIZES.apple, 1, map)

(***************************************************************************)
(* The command-line program, index.ts 373-380.  Its synchronous runs are   *)
(* one action each: from the start to the first await, from the end of     *)
(* the resizes to the await of generateIco, and from there to the end.     *)
(***************************************************************************)
ERR_SHARP == "ERR_SHARP"

\* index.ts 374-376 with parseArgs, then generateFavicons up to its await
\* of generateAllSizesOptimized, which renders the emoji and starts one
\* resize per size (index.ts 296-301 and 94-112)
Main ==
  /\ cliPc = "start"
  /\ LET parsed == parseArgs(argv)
         made == makeOutDir(fs, parsed.opts.outDir)
     IN  IF parsed.exits
         THEN /\ cliPc' = "exited"
              /\ exitCode' = parsed.code
              /\ console' = console \o parsed.console
              /\ UNCHANGED <<opts, fs, error, resize, buffers>>
         ELSE /\ opts' = parsed.opts
              /\ fs' = made.fs
              /\ IF made.err # "none"
                 THEN /\ cliPc' = "rejected"
                      /\ error' = made.err
                      /\ UNCHANGED <<resize, buffers>>
                 ELSE /\ cliPc' = "resizing"
                      /\ resize' = [i \in 1..Len(allSizes) |-> "pending"]
                      /\ buffers' = [i \in 1..Len(allSizes) |-> NoBuffer]
                      /\ error' = error
              /\ UNCHANGED <<console, exitCode>>
  /\ UNCHANGED <<argv, sizeMap>>
  /\ UNCHANGED icoVars

\* ResizeResolve with the buffer stored at the next free index, under the
\* size of that index
ResizeResolve_bySlot(i) ==
  /\ cliPc = "resizing"
  /\ i \in 1..Len(resize)
  /\ resize[i] = "pending"
  /\ resize' = [resize EXCEPT ![i] = "fulfilled"]
  /\ LET k == 1 + Cardinality({j \in 1..Len(resize) : resize[j] = "fulfilled"})
     IN  buffers' = [buffers EXCEPT ![k] =
           [size |-> allSizes[k],
            buffer |-> resizePng(emojiToImageCanvas(opts.emoji, HIGH_RES_SIZE),
                                 allSizes[i])]]
  /\ UNCHANGED <<argv, cliPc, opts, fs, sizeMap, error, console, exitCode>>
  /\ UNCHANGED icoVars

\* index.ts 102-111: the resize to size i completes; Promise.all stores
\* { size, buffer } at index i
ResizeResolve(i) ==
  /\ cliPc = "resizing"
  /\ i \in 1..Len(resize)
  /\ resize[i] = "pending"
  /\ resize' = [resize EXCEPT ![i] = "fulfilled"]
  /\ buffers' = [buffers EXCEPT ![i] =
       [size |-> allSizes[i],
        buffer |-> resizePng(emojiToImageCanvas(opts.emoji, HIGH_RES_SIZE),
                             allSizes[i])]]
  /\ UNCHANGED <<argv, cliPc, opts, fs, sizeMap, error, console, exitCode>>
  /\ UNCHANGED icoVars

\* index.ts 103-109: sharp rejects the resize to size i; Promise.all, then
\* generateAllSizesOptimized and generateFavicons reject in the same turn of
\* the event loop, before any other resize can complete
ResizeReject(i) ==
  /\ cliPc = "resizing"
  /\ i \in 1..Len(resize)
  /\ resize[i] = "pending"
  /\ resize' = [resize EXCEPT ![i] = "rejected"]
  /\ cliPc' = "rejected"
  /\ error' = ERR_SHARP
  /\ UNCHANGED <<argv, opts, fs, buffers, sizeMap, console, exitCode>>
  /\ UNCHANGED icoVars

\* index.ts 114-120 and 301-322: every resize is done; the Map is filled,
\* the PNG favicons are saved when --all is set, and generateIco is called
\* with the buffers of the favicon sizes and runs up to its await
ContinueFavicons ==
  /\ cliPc = "resizing"
  /\ \A i \in 1..Len(resize) : resize[i] = "fulfilled"
  /\ LET map == setAll(buffers, 1, <<>>)
         faviconBuffers ==
           [k \in 1..Len(SIZES.favicon) |-> get(map, SIZES.favicon[k])]
         saved == saveFavicons(fs, opts.outDir, opts.generateAll, map)
     IN  /\ sizeMap' = map
         /\ fs' = saved.fs
         /\ IF saved.err # "none"
            THEN /\ cliPc' = "rejected"
                 /\ error' = saved.err
                 /\ UNCHANGED icoVars
            ELSE /\ cliPc' = "encoding"
                 /\ error' = error
                 /\ Call(1, faviconBuffers)
  /\ UNCHANGED <<argv, opts, resize, buffers, console, exitCode>>

\* index.ts 322-371: the await of generateIco returns or throws; favicon.ico
\* is written, then the Apple touch icons when --all is set, and the
\* message is logged; the process then ends with its exit code 0
FinishFavicons ==
  /\ cliPc = "encoding"
  /\ Settled(1)
  /\ LET saved == saveIcoAndApple(fs, opts.outDir, opts.generateAll, sizeMap,
                                  Out(1))
     IN  IF ~Returned(1)
         THEN /\ cliPc' = "rejected"
              /\ error' = result[1].err
              /\ UNCHANGED <<fs, console>>
         ELSE /\ fs' = saved.fs
              /\ IF saved.err # "none"
                 THEN /\ cliPc' = "rejected"
                      /\ error' = saved.err
                      /\ console' = console
                 ELSE /\ cliPc' = "exited"
                      /\ error' = error
                      /\ console' = Append(console,
                           IF opts.generateAll
                           THEN "Generated all favicon and Apple touch icon assets"
                           ELSE "Generated favicon.ico")
  /\ UNCHANGED <<argv, opts, resize, buffers, sizeMap, exitCode>>
  /\ UNCHANGED icoVars

\* index.ts 376-379: the catch handler logs the error and exits with 1
Catch ==
  /\ cliPc = "rejected"
  /\ console' = Append(console, "Error: " \o error)
  /\ exitCode' = 1
  /\ cliPc' = "exited"
  /\ UNCHANGED <<argv, opts, fs, resize, buffers, sizeMap, error>>
  /\ UNCHANGED icoVars

\* a working directory in use: an output directory icons with an old
\* favicon.ico and the directory of the PNG favicons, an Apple touch icon
\* directory, and a regular file named a
FsUsed ==
  [dirs |-> {<<>>, <<"icons">>, <<"icons", "favicons">>,
             <<"apple-touch-icon">>},
   files |-> (<<"icons", "favicon.ico">> :> <<0>>) @@ (<<"a">> :> <<0>>),
   log |-> <<>>]

\* the command lines that end in parseArgs
ExitArgs ==
  {<<>>, <<"--help">>, <<"E", "-h">>, <<"--all">>, <<"--out", "E">>,
   <<"-x">>, <<"-o">>}

\* the runs of the program: the arguments and the file system they start on
CliRuns ==
  {<<args, FsEmpty>> : args \in ExitArgs}
    \cup {<<<<"E">>, FsEmpty>>,
          <<<<"-o", "a/b", "F", "--all">>, FsEmpty>>,
          <<<<"E", "--all", "-x">>, FsUsed>>,
          <<<<"E", "--out", "icons">>, FsUsed>>,
          <<<<"E", "-o", "a/b">>, FsUsed>>,
          <<<<"E", "--all", "--out", "a">>, FsUsed>>}

\* the program started from the command line (require.main === module)
InitCli ==
  /\ NoCalls
  /\ NotStarted
  /\ cliPc = "start"
  /\ \E run \in CliRuns : argv = run[1] /\ fs = run[2]

CliNext ==
  \/ Main
  \/ \E i \in 1..Len(resize) : ResizeResolve(i)
  \/ \E i \in 1..Len(resize) : ResizeReject(i)
  \/ ContinueFavicons
  \/ \E i \in 1..Len(tasks[1]) : ParseResolve(1, i) /\ UNCHANGED cliVars
  \/ Resume(1) /\ UNCHANGED cliVars
  \/ FinishFavicons
  \/ Catch

SpecCli == InitCli /\ [][CliNext]_vars

\* the words of a command line: the options, their short forms, an option
\* the program does not know, and two emoji
ArgTokens == {"--out", "-o", "--all", "--help", "-h", "-x", "E", "F"}

ArgLists == ListsOf(ArgTokens, MaxArgs)

\* the program started with any of the argument lists in an empty working
\* directory, and run up to its first await
InitArgs ==
  /\ NoCalls
  /\ NotStarted
  /\ cliPc = "start"
  /\ argv \in ArgLists
  /\ fs = FsEmpty

ArgsNext == Main

SpecArgs == InitArgs /\ [][ArgsNext]_vars

(***************************************************************************)
(* What a run of the command-line program did, as its tests look at it.    *)
(***************************************************************************)
\* the paths written with writeFileSync, and the directories made
Written == {fs.log[k][2] : k \in {j \in 1..Len(fs.log) : fs.log[j][1] = "write"}}

Made == {fs.log[k][2] : k \in {j \in 1..Len(fs.log) : fs.log[j][1] = "mkdir"}}

\* the output directory parseArgs returned
OutPath == Segments(opts.outDir)

\* the program has ended
Exited == cliPc = "exited"

\* parseArgs has run
Parsed == cliPc \notin {"off", "start"}

\* argument i (from 1) is the value of a --out or -o standing before it,
\* which is not itself such a value
RECURSIVE Consumed(_, _)
Consumed(args, i) ==
  /\ i > 1
  /\ args[i - 1] \in {"--out", "-o"}
  /\ ~Consumed(args, i - 1)

\* argument i is positional: not a value of --out or -o, no leading dash
Positional(args, i) == ~Consumed(args, i) /\ ~startsWithDash(args[i])

\* the argument lists printHelp is called for
HelpAsked(args) ==
  Len(args) = 0 \/ includes(args, "--help") \/ includes(args, "-h")

\* generateFavicons ran to its end
Completed == Exited /\ exitCode = 0 /\ Returned(1)

(***************************************************************************)
(* The decoder of the ICO codec: it is not part of index.ts, and is        *)
(* modelled from the specification's section 4.3.                          *)
(***************************************************************************)
\* the inverse of the pixel-format converter: rows back to top-down, B and R
\* swapped back
decodePixels(px, width, height) ==
  [j \in 1..Len(px) |->
     LET pixel == (j - 1) \div 4
         channel == (j - 1) % 4
         row == pixel \div width
         col == pixel % width
         from == CASE channel = 0 -> 2 [] channel = 2 -> 0 [] OTHER -> channel
     IN  px[(((height - 1 - row) * width + col) * 4) + from + 1]]

\* the image of directory entry i (from 0) of container b
decodeEntry(b, i) ==
  LET off == DataOffset(b, i)
      size == DataSize(b, i)
  IN  IF size < 40 \/ off + size > Len(b)
      THEN [err |-> "TruncatedData", image |-> NoImage]
      ELSE LET width == readInt32LE(b, off + 4)
               height == readInt32LE(b, off + 8) \div 2
               bpp == readUInt16LE(b, off + 14) \div 8
               px == Bytes(b, off + 40, size - 40)
           IN  IF width < 0 \/ height < 0 \/ Len(px) # width * height * 4
               THEN [err |-> "InvalidFormat", image |-> NoImage]
               ELSE [err |-> "none",
                     image |-> [width |-> width, height |-> height,
                                bpp |-> bpp,
                                data |-> decodePixels(px, width, height)]]

\* the images of the entries i .. count - 1, in order
RECURSIVE decodeFrom(_, _, _)
decodeFrom(b, i, count) ==
  IF i >= count THEN [err |-> "none", images |-> <<>>]
  ELSE LET e == decodeEntry(b, i)
           rest == decodeFrom(b, i + 1, count)
       IN  IF e.err # "none" THEN [err |-> e.err, images |-> <<>>]
           ELSE IF rest.err # "none" THEN rest
           ELSE [err |-> "none", images |-> <<e.image>> \o rest.images]

decode(b) ==
  IF Len(b) < 6 THEN [err |-> "TruncatedData", images |-> <<>>]
  ELSE IF readUInt16LE(b, 0) # 0 \/ readUInt16LE(b, 2) # 1
       THEN [err |-> "MalformedHeader", images |-> <<>>]
       ELSE IF 6 + 16 * readUInt16LE(b, 4) > Len(b)
            THEN [err |-> "TruncatedData", images |-> <<>>]
            ELSE decodeFrom(b, 0, readUInt16LE(b, 4))

(***************************************************************************)
(* C1.  The buffer generateIco returns for N images starts with the six    *)
(* header bytes: reserved = 0 at 0-1, type = 1 at 2-3 and count = N at     *)
(* 4-5, little-endian; createIcoHeader(count) is that header for every     *)
(* count up to 65535.                                                      *)
(***************************************************************************)
C1_Header ==
  /\ \A c \in Calls :
       Returned(c) =>
         /\ Len(Out(c)) >= 6
         /\ readUInt16LE(Out(c), 0) = 0
         /\ readUInt16LE(Out(c), 2) = 1
         /\ readUInt16LE(Out(c), 4) = N(c)
  /\ (unit.fn = "createIcoHeader" /\ unit.args[1] \in 0..65535) =>
       /\ unit.ret.err = "none"
       /\ unit.ret.buf =
            <<0, 0, 1, 0, unit.args[1] % 256, unit.args[1] \div 256>>

C1_Witness == Returned(1) /\ N(1) = 2

(***************************************************************************)
(* C2.  In the output for N >= 2 images each directory entry's dataOffset  *)
(* plus dataSize is the next entry's dataOffset: the offsets increase in   *)
(* input order with no gap and no overlap.                                 *)
(***************************************************************************)
C2_Contiguous ==
  \A c \in Calls :
    (Returned(c) /\ N(c) >= 2) =>
      \A i \in 0..(N(c) - 2) :
        /\ DataOffset(Out(c), i) + DataSize(Out(c), i)
             = DataOffset(Out(c), i + 1)
        /\ DataOffset(Out(c), i) < DataOffset(Out(c), i + 1)

C2_Witness ==
  /\ Returned(1)
  /\ N(1) = 2
  /\ DataSize(Out(1), 0) # DataSize(Out(1), 1)

(***************************************************************************)
(* C3.  In the output for N >= 1 images directory[0].dataOffset is         *)
(* 6 + 16 * N, and at each directory[i].dataOffset stand the 40 bytes of   *)
(* the BitmapInfoHeader of image i (headerSize 40, the image's width,      *)
(* twice its height), followed at once by the image's converted pixels.    *)
(***************************************************************************)
C3_BlockAt(b, i, p) ==
  LET off == DataOffset(b, i)
  IN  /\ off + 40 + p.len <= Len(b)
      /\ readUInt32LE(b, off) = 40
      /\ readInt32LE(b, off + 4) = p.width
      /\ readInt32LE(b, off + 8) = 2 * p.height
      /\ Bytes(b, off, 40)
           = createBitmapInfoHeader(p.width, p.height, 4, p.len).buf
      /\ Bytes(b, off + 40, p.len)
           = convertRgbaToBgr(Raw(p), p.width, p.height, 4).buf

C3_Blocks ==
  \A c \in Calls :
    (Returned(c) /\ N(c) >= 1) =>
      /\ DataOffset(Out(c), 0) = 6 + 16 * N(c)
      /\ \A i \in 0..(N(c) - 1) : C3_BlockAt(Out(c), i, pngBuffers[c][i + 1])

C3_Witness ==
  /\ Returned(1)
  /\ N(1) = 2
  /\ pngBuffers[1][1].width # pngBuffers[1][2].width
  /\ pngBuffers[1][1].height # pngBuffers[1][2].height

(***************************************************************************)
(* C4.  The byte ranges [dataOffset, dataOffset + dataSize) the directory  *)
(* declares are pairwise disjoint and together are exactly                 *)
(* [6 + 16 * N, length of the buffer); the length is 6 + 16 * N plus, per  *)
(* image, 40 and the length of its pixels.                                 *)
(***************************************************************************)
RECURSIVE C4_BlockBytes(_, _)
C4_BlockBytes(bufs, n) ==
  IF n = 0 THEN 0 ELSE C4_BlockBytes(bufs, n - 1) + 40 + bufs[n].len

C4_Ranges ==
  \A c \in Calls :
    Returned(c) =>
      LET b == Out(c)
          lo(i) == DataOffset(b, i)
          hi(i) == DataOffset(b, i) + DataSize(b, i)
          first == 6 + 16 * N(c)
          entries == 0..(N(c) - 1)
      IN  /\ Len(b) = first + C4_BlockBytes(pngBuffers[c], N(c))
          /\ \A i \in entries : first <= lo(i) /\ lo(i) < hi(i) /\ hi(i) <= Len(b)
          /\ \A i \in entries : \A j \in entries :
               i # j => (hi(i) <= lo(j) \/ hi(j) <= lo(i))
          /\ \A q \in first..(Len(b) - 1) :
               \E i \in entries : lo(i) <= q /\ q < hi(i)

C4_Witness ==
  /\ Returned(1)
  /\ N(1) = 2
  /\ pngBuffers[1][1].len # pngBuffers[1][2].len

(***************************************************************************)
(* C5.  Round trip: for every list of valid images (four bytes per pixel,  *)
(* pixels.length = width * height * 4, dimensions in 1..256) decoding the  *)
(* container generateIco returns yields the same images in the same        *)
(* order, with the same dimensions and pixel bytes.                        *)
(***************************************************************************)
C5_RoundTrip ==
  \A c \in Calls :
    (Returned(c) /\ AllValid(c)) =>
      decode(Out(c)) =
        [err |-> "none",
         images |-> [i \in 1..N(c) |->
                      [width |-> pngBuffers[c][i].width,
                       height |-> pngBuffers[c][i].height,
                       bpp |-> 4,
                       data |-> Raw(pngBuffers[c][i])]]]

C5_Witness ==
  /\ Returned(1)
  /\ AllValid(1)
  /\ N(1) = 2
  /\ pngBuffers[1][1].width = 2
  /\ pngBuffers[1][1].height = 2
  /\ pngBuffers[1][2].height = 1

(***************************************************************************)
(* C6.  For a buffer p of length width * height * 4,                       *)
(* convertRgbaToBgr(p, width, height, 4) returns q of the same length in   *)
(* which the pixel at row height - 1 - r, column c is (B, G, R, A) of the  *)
(* pixel (R, G, B, A) of p at row r, column c.                             *)
(***************************************************************************)
C6_FlipAndSwap ==
  LET p == unit.data
      q == unit.ret.buf
      width == unit.args[1]
      height == unit.args[2]
  IN  (/\ unit.fn = "convertRgbaToBgr"
       /\ unit.args[3] = 4
       /\ Len(p) = width * height * 4) =>
        /\ unit.ret.err = "none"
        /\ Len(q) = Len(p)
        /\ \A r \in 0..(height - 1) : \A c \in 0..(width - 1) :
             LET src == (r * width + c) * 4
                 dst == ((height - 1 - r) * width + c) * 4
             IN  /\ q[dst + 1] = p[src + 3]
                 /\ q[dst + 2] = p[src + 2]
                 /\ q[dst + 3] = p[src + 1]
                 /\ q[dst + 4] = p[src + 4]

C6_Witness ==
  /\ unit.fn = "convertRgbaToBgr"
  /\ unit.args = <<2, 3, 4>>
  /\ Len(unit.data) = 24
  /\ unit.ret.err = "none"

(***************************************************************************)
(* C7.  Involution: converting the result of convertRgbaToBgr(p, w, h, 4)  *)
(* again with the same dimensions gives back p, for every buffer p of      *)
(* length w * h * 4.                                                       *)
(***************************************************************************)
C7_Involution ==
  (/\ unit.fn = "convertRgbaToBgr"
   /\ unit.args[3] = 4
   /\ Len(unit.data) = unit.args[1] * unit.args[2] * 4) =>
    /\ unit.ret.err = "none"
    /\ convertRgbaToBgr(unit.ret.buf, unit.args[1], unit.args[2], 4)
         = Ok(unit.data)

C7_Witness ==
  /\ unit.fn = "convertRgbaToBgr"
  /\ unit.args = <<3, 2, 4>>
  /\ Len(unit.data) = 24
  /\ unit.ret.err = "none"
  /\ unit.ret.buf # unit.data

(***************************************************************************)
(* C8.  createIcoDirectory writes the width byte as 0 for width 256 and    *)
(* as the width for every width in 0..255, and the height byte likewise;   *)
(* so do the directory entries of generateIco's output.                    *)
(***************************************************************************)
C8_Expected(d) == IF d = 256 THEN 0 ELSE d

C8_DimBytes ==
  /\ (/\ unit.fn = "createIcoDirectory"
      /\ unit.args[1] \in 0..256
      /\ unit.args[2] \in 0..256) =>
       /\ unit.ret.err = "none"
       /\ Len(unit.ret.buf) = 16
       /\ unit.ret.buf[1] = C8_Expected(unit.args[1])
       /\ unit.ret.buf[2] = C8_Expected(unit.args[2])
  /\ \A c \in Calls :
       Returned(c) =>
         \A i \in 0..(N(c) - 1) :
           /\ DirWidth(Out(c), i) = C8_Expected(pngBuffers[c][i + 1].width)
           /\ DirHeight(Out(c), i) = C8_Expected(pngBuffers[c][i + 1].height)

C8_Witness ==
  /\ Returned(1)
  /\ N(1) = 2
  /\ pngBuffers[1][1].width = 256
  /\ pngBuffers[1][2].height = 256
  /\ DirWidth(Out(1), 0) = 0
  /\ DirHeight(Out(1), 1) = 0

(***************************************************************************)
(* C9.  Determinism: two generateIco calls given the same list of buffers  *)
(* return the same bytes, in whatever order the parse tasks of each        *)
(* settle.                                                                 *)
(***************************************************************************)
C9_Deterministic ==
  \A c \in Calls : \A d \in Calls :
    (Returned(c) /\ Settled(d) /\ pngBuffers[c] = pngBuffers[d]) =>
      /\ Returned(d)
      /\ Out(c) = Out(d)

C9_Witness ==
  /\ Returned(1)
  /\ Returned(2)
  /\ pngBuffers[1] = pngBuffers[2]
  /\ N(1) = 2
  /\ pngBuffers[1][1] # pngBuffers[1][2]
  /\ order[1] = <<1, 2>>
  /\ order[2] = <<2, 1>>

(***************************************************************************)
(* C10.  Encoding an empty list fails with an EmptyInput error and         *)
(* returns no container bytes.                                             *)
(***************************************************************************)
C10_EmptyInputFails ==
  \A c \in Calls :
    (Settled(c) /\ N(c) = 0) =>
      /\ ~Returned(c)
      /\ result[c].err = "EmptyInput"

(***************************************************************************)
(* C11.  Encoding fails with an InvalidFormat error and returns no bytes   *)
(* whenever an image's pixel buffer is shorter or longer than              *)
(* width * height * 4; so does the converter called with such a buffer.    *)
(***************************************************************************)
C11_Mismatch(c) ==
  \E i \in 1..N(c) :
    /\ pngBuffers[c][i].valid
    /\ pngBuffers[c][i].len
         # pngBuffers[c][i].width * pngBuffers[c][i].height * 4

C11_MismatchFails ==
  /\ \A c \in Calls :
       (Settled(c) /\ C11_Mismatch(c)) =>
         /\ ~Returned(c)
         /\ result[c].err = "InvalidFormat"
         /\ result[c].buf = <<>>
  /\ (/\ unit.fn = "convertRgbaToBgr"
      /\ Len(unit.data) # unit.args[1] * unit.args[2] * unit.args[3]) =>
       /\ unit.ret.err = "InvalidFormat"
       /\ unit.ret.buf = <<>>

(***************************************************************************)
(* C12.  A generateIco call with an image whose width or height is above   *)
(* 255 and not 256 fails with an error and returns no bytes, and           *)
(* createIcoDirectory called with such a dimension throws: the dimension   *)
(* is never cut down to a byte.                                            *)
(***************************************************************************)
C12_Oversize(d) == d > 255 /\ d # 256

C12_DimensionFails ==
  /\ \A c \in Calls :
       (/\ Settled(c)
        /\ \E i \in 1..N(c) :
             /\ pngBuffers[c][i].valid
             /\ \/ C12_Oversize(pngBuffers[c][i].width)
                \/ C12_Oversize(pngBuffers[c][i].height)) =>
         /\ ~Returned(c)
         /\ result[c].err # "none"
         /\ result[c].buf = <<>>
  /\ (/\ unit.fn = "createIcoDirectory"
      /\ C12_Oversize(unit.args[1]) \/ C12_Oversize(unit.args[2])) =>
       /\ unit.ret.err # "none"
       /\ unit.ret.buf = <<>>

C12_Witness ==
  /\ Settled(1)
  /\ N(1) = 2
  /\ pngBuffers[1][2].width = 257
  /\ AllFulfilled(1)
  /\ result[1] = Throw(ERR_OUT_OF_RANGE)

(***************************************************************************)
(* C13.  The parse tasks of a generateIco call run concurrently and settle *)
(* in any order; in every output, whatever that order was, directory       *)
(* entry i and image block i both describe input image i.                  *)
(***************************************************************************)
C13_Describes(b, i, p) ==
  LET off == DataOffset(b, i)
  IN  /\ DirWidth(b, i) = p.width % 256
      /\ DirHeight(b, i) = p.height % 256
      /\ DataSize(b, i) = 40 + p.len
      /\ readInt32LE(b, off + 4) = p.width
      /\ readInt32LE(b, off + 8) = 2 * p.height
      /\ readUInt32LE(b, off + 20) = p.len
      /\ Bytes(b, off + 40, p.len)
           = convertRgbaToBgr(Raw(p), p.width, p.height, 4).buf

C13_InputOrder ==
  \A c \in Calls :
    Returned(c) =>
      /\ Len(order[c]) = N(c)
      /\ \A i \in 1..N(c) : \E k \in 1..N(c) : order[c][k] = i
      /\ \A i \in 1..N(c) : C13_Describes(Out(c), i - 1, pngBuffers[c][i])

C13_Witness ==
  /\ Returned(1)
  /\ N(1) = 2
  /\ order[1] = <<2, 1>>
  /\ pngBuffers[1][1].width # pngBuffers[1][2].width
  /\ pngBuffers[1][1].len # pngBuffers[1][2].len

(***************************************************************************)
(* C14.  createBitmapInfoHeader(width, height, bpp, dataSize) returns 40   *)
(* bytes, little-endian: 40 at offset 0, width at 4, height * 2 at 8, 1 at *)
(* 12, bpp * 8 at 14, 0 at 16, dataSize at 20 and 0 at 24, 28, 32 and 36;  *)
(* in the output of generateIco the image size field of each block is the  *)
(* length of the pixel payload that follows the header.                    *)
(***************************************************************************)
C14_InfoHeader ==
  /\ unit.fn = "createBitmapInfoHeader" =>
       LET b == unit.ret.buf
       IN  /\ unit.ret.err = "none"
           /\ Len(b) = 40
           /\ readUInt32LE(b, 0) = 40
           /\ readInt32LE(b, 4) = unit.args[1]
           /\ readInt32LE(b, 8) = unit.args[2] * 2
           /\ readUInt16LE(b, 12) = 1
           /\ readUInt16LE(b, 14) = unit.args[3] * 8
           /\ readUInt32LE(b, 16) = 0
           /\ readUInt32LE(b, 20) = unit.args[4]
           /\ readInt32LE(b, 24) = 0
           /\ readInt32LE(b, 28) = 0
           /\ readUInt32LE(b, 32) = 0
           /\ readUInt32LE(b, 36) = 0
  /\ \A c \in Calls :
       Returned(c) =>
         \A i \in 0..(N(c) - 1) :
           LET b == Out(c)
               off == DataOffset(b, i)
               next == IF i = N(c) - 1 THEN Len(b) ELSE DataOffset(b, i + 1)
           IN  /\ readUInt32LE(b, off) = 40
               /\ readUInt32LE(b, off + 20) = next - (off + 40)
               /\ readUInt32LE(b, off + 20) = Len(images[c][i + 1].data)

C14_Witness ==
  /\ Returned(1)
  /\ N(1) = 2
  /\ readUInt32LE(Out(1), DataOffset(Out(1), 0) + 20) = 16
  /\ readUInt32LE(Out(1), DataOffset(Out(1), 1) + 20) = 4

(***************************************************************************)
(* C15.  Every directory entry in the output of generateIco is 16 bytes    *)
(* with colorPalette 0, reserved 0, colorPlanes 1, bitsPerPixel 32 and     *)
(* dataSize 40 + the length of the image's pixel payload, which is         *)
(* 40 + width * height * 4 for an image whose pixels are                   *)
(* width * height * 4 bytes long.                                          *)
(***************************************************************************)
C15_Entries ==
  /\ \A c \in Calls :
       Returned(c) =>
         /\ Len(Out(c)) >= 6 + 16 * N(c)
         /\ \A i \in 0..(N(c) - 1) :
              LET b == Out(c)
                  p == pngBuffers[c][i + 1]
              IN  /\ readUInt8(b, EntryAt(i) + 2) = 0
                  /\ readUInt8(b, EntryAt(i) + 3) = 0
                  /\ readUInt16LE(b, EntryAt(i) + 4) = 1
                  /\ readUInt16LE(b, EntryAt(i) + 6) = 32
                  /\ DataSize(b, i) = 40 + Len(images[c][i + 1].data)
                  /\ DataOffset(b, i) >= EntryAt(N(c))
                  /\ p.len = p.width * p.height * 4 =>
                       DataSize(b, i) = 40 + p.width * p.height * 4
  /\ (unit.fn = "createIcoDirectory" /\ unit.ret.err = "none") =>
       /\ Len(unit.ret.buf) = 16
       /\ readUInt8(unit.ret.buf, 2) = 0
       /\ readUInt8(unit.ret.buf, 3) = 0
       /\ readUInt16LE(unit.ret.buf, 4) = 1
       /\ readUInt16LE(unit.ret.buf, 6) = unit.args[3] * 8
       /\ readUInt32LE(unit.ret.buf, 8) = unit.args[4]
       /\ readUInt32LE(unit.ret.buf, 12) = unit.args[5]

C15_Witness ==
  /\ Returned(1)
  /\ N(1) = 2
  /\ DataSize(Out(1), 0) = 40 + 2 * 2 * 4
  /\ DataSize(Out(1), 1) = 40 + 256 * 4

(***************************************************************************)
(* C16.  As claimed: convertRgbaToBgr returns a buffer of the input        *)
(* buffer's length for every width, height, bytes per pixel and buffer.    *)
(***************************************************************************)
C16_AlwaysSameLength ==
  unit.fn = "convertRgbaToBgr" =>
    /\ unit.ret.err = "none"
    /\ Len(unit.ret.buf) = Len(unit.data)

(***************************************************************************)
(* C16, amended.  Whenever convertRgbaToBgr returns, the buffer it returns *)
(* has the input buffer's length; with four bytes per pixel it returns     *)
(* for every buffer of at least width * height * 4 bytes and throws a      *)
(* RangeError for every shorter one; when width * height = 0 and the       *)
(* input is empty it returns an empty buffer, having read and written no   *)
(* byte (any read or write on an empty buffer throws).                     *)
(***************************************************************************)
C16_SameLength ==
  unit.fn = "convertRgbaToBgr" =>
    LET len == Len(unit.data)
        width == unit.args[1]
        height == unit.args[2]
        bpp == unit.args[3]
    IN  /\ unit.ret.err = "none" => Len(unit.ret.buf) = len
        /\ unit.ret.err \in {"none", ERR_OUT_OF_RANGE}
        /\ bpp = 4 => (unit.ret.err = "none" <=> len >= width * height * 4)
        /\ (width * height = 0 /\ len = 0) => unit.ret = Ok(<<>>)

C16_Witness ==
  /\ unit.fn = "convertRgbaToBgr"
  /\ unit.args = <<2, 2, 4>>
  /\ Len(unit.data) = 20
  /\ unit.ret.err = "none"
  /\ Len(unit.ret.buf) = 20

(***************************************************************************)
(* C17.  The favicon.ico the command-line program writes holds exactly     *)
(* three images, 16 x 16, 32 x 32 and 48 x 48 in that order, in whatever   *)
(* order the resize tasks completed: every completed resize is stored      *)
(* under its own size, and the written file has count 3 and directory      *)
(* entries and bitmap headers of these sizes in this order.                *)
(***************************************************************************)
C17_IcoPath == join(OutPath, "favicon.ico")

C17_HasImage(b, i, size) ==
  /\ DirWidth(b, i) = size
  /\ DirHeight(b, i) = size
  /\ DataSize(b, i) = 40 + size * size * 4
  /\ readInt32LE(b, DataOffset(b, i) + 4) = size
  /\ readInt32LE(b, DataOffset(b, i) + 8) = 2 * size

C17_FaviconIco ==
  /\ \A i \in 1..Len(resize) :
       resize[i] = "fulfilled" =>
         /\ buffers[i].size = allSizes[i]
         /\ buffers[i].buffer.width = buffers[i].size
         /\ buffers[i].buffer.height = buffers[i].size
  /\ C17_IcoPath \in Written =>
       LET b == fs.files[C17_IcoPath]
       IN  /\ readUInt16LE(b, 4) = 3
           /\ C17_HasImage(b, 0, 16)
           /\ C17_HasImage(b, 1, 32)
           /\ C17_HasImage(b, 2, 48)
           /\ Len(b) = 6 + 3 * 16 + 3 * 40 + (16 * 16 + 32 * 32 + 48 * 48) * 4

C17_Witness ==
  /\ Completed
  /\ C17_IcoPath \in Written
  /\ order[1] = <<3, 1, 2>>
  /\ DirWidth(fs.files[C17_IcoPath], 0) = 16

(***************************************************************************)
(* C18.  Run with an emoji, without --out or -o (and without a help        *)
(* flag), the program takes "." as its output directory: it makes and      *)
(* writes nothing outside favicon.ico, favicons/ and apple-touch-icon/ of  *)
(* the working directory, and unless a resize fails it ends with exit      *)
(* code 0 and favicon.ico written there, with both directories and their   *)
(* files when --all is set.                                                *)
(***************************************************************************)
C18_DefaultRun ==
  /\ cliPc \notin {"off", "start"}
  /\ ~includes(argv, "--out")
  /\ ~includes(argv, "-o")
  /\ ~includes(argv, "--help")
  /\ ~includes(argv, "-h")
  /\ \E i \in 1..Len(argv) : ~startsWithDash(argv[i])

C20_Favicons ==
  {<<16, "favicon-16x16.png">>, <<32, "favicon-32x32.png">>,
   <<48, "favicon-48x48.png">>}

C20_Apple ==
  {<<57, "apple-touch-icon-57x57.png">>, <<60, "apple-touch-icon-60x60.png">>,
   <<72, "apple-touch-icon-72x72.png">>, <<76, "apple-touch-icon-76x76.png">>,
   <<114, "apple-touch-icon-114x114.png">>,
   <<120, "apple-touch-icon-120x120.png">>,
   <<144, "apple-touch-icon-144x144.png">>,
   <<152, "apple-touch-icon-152x152.png">>,
   <<180, "apple-touch-icon-180x180.png">>}

\* the buffer the resize to size produced
C20_Resized(size) ==
  buffers[CHOOSE i \in 1..Len(buffers) : allSizes[i] = size].buffer

C20_Holds(dir, sn) ==
  LET path == join(dir, sn[2])
  IN  /\ path \in Written
      /\ path \in DOMAIN fs.files
      /\ fs.files[path] = C20_Resized(sn[1])
      /\ fs.files[path].width = sn[1]
      /\ fs.files[path].height = sn[1]

C20_AllFiles ==
  (Completed /\ opts.generateAll) =>
    LET faviconDir == join(OutPath, "favicons")
        appleDir == join(OutPath, "apple-touch-icon")
    IN  /\ join(OutPath, "favicon.ico") \in Written
        /\ fs.files[join(OutPath, "favicon.ico")] = Out(1)
        /\ {OutPath, faviconDir, appleDir} \subseteq fs.dirs
        /\ \A sn \in C20_Favicons : C20_Holds(faviconDir, sn)
        /\ \A sn \in C20_Apple : C20_Holds(appleDir, sn)
        /\ Written = {join(OutPath, "favicon.ico")}
             \cup {join(faviconDir, sn[2]) : sn \in C20_Favicons}
             \cup {join(appleDir, sn[2]) : sn \in C20_Apple}

C20_Witness ==
  /\ Completed
  /\ opts.generateAll
  /\ opts.outDir = "a/b"
  /\ Cardinality(Written) = 13

(***************************************************************************)
(* C21.  As claimed: for every argument list without a positional emoji    *)
(* argument the program exits with a non-zero status and writes no file.   *)
(***************************************************************************)
C21_NoEmoji == ~\E i \in 1..Len(argv) : Positional(argv, i)

C21_NoEmojiFails ==
  (Parsed /\ C21_NoEmoji) =>
    /\ Exited
    /\ exitCode # 0
    /\ fs = FsEmpty

(***************************************************************************)
(* C21, amended.  For every non-empty argument list with neither --help    *)
(* nor -h and without a positional emoji argument the program prints       *)
(* "Error: Emoji is required", exits with status 1 and writes no file and  *)
(* makes no directory; for the other lists without a positional emoji (the *)
(* empty one and those with a help flag) it exits with status 0, writing   *)
(* nothing either.                                                         *)
(***************************************************************************)
C21_NoEmojiFailsUnlessHelp ==
  (Parsed /\ C21_NoEmoji) =>
    /\ Exited
    /\ fs = FsEmpty
    /\ resize = <<>>
    /\ \A c \in Calls : pc[c] = "idle"
    /\ IF HelpAsked(argv)
       THEN exitCode = 0
       ELSE /\ exitCode = 1
            /\ console = <<"Error: Emoji is required",
                           "Run with --help for usage information">>

C21_Witness ==
  /\ argv = <<"--all", "--out", "E">>
  /\ Exited
  /\ exitCode = 1
  /\ fs = FsEmpty

(***************************************************************************)
(* C26.  As claimed: the argument right after a --out or -o that parseArgs *)
(* reads as an option is always taken as the output directory and never    *)
(* as the emoji or as a flag; the emoji is the first of the other          *)
(* arguments without a leading dash, and later ones are ignored.           *)
(***************************************************************************)
\* the arguments taken as output directories, the last of which counts
C26_Values == {i \in 1..Len(argv) : Consumed(argv, i)}

C26_OutDir ==
  IF C26_Values = {} THEN "."
  ELSE argv[CHOOSE i \in C26_Values : \A j \in C26_Values : j <= i]

C26_Emoji ==
  LET first == CHOOSE i \in 1..Len(argv) :
                 /\ Positional(argv, i)
                 /\ \A j \in 1..(i - 1) : ~Positional(argv, j)
  IN  argv[first]

C26_All == \E i \in 1..Len(argv) : argv[i] = "--all" /\ ~Consumed(argv, i)

\* a help flag that is not the value of --out or -o
C26_Help ==
  \E i \in 1..Len(argv) : argv[i] \in {"--help", "-h"} /\ ~Consumed(argv, i)

C26_AsParsed ==
  IF \E i \in 1..Len(argv) : Positional(argv, i)
  THEN /\ ~Exited
       /\ opts = [emoji |-> C26_Emoji, outDir |-> C26_OutDir,
                  generateAll |-> C26_All]
  ELSE Exited /\ exitCode = 1

C26_AlwaysConsumed ==
  (Parsed /\ Len(argv) > 0 /\ ~C26_Help) => C26_AsParsed

(***************************************************************************)
(* C26, amended.  In an argument list without --help and -h, the argument  *)
(* right after a --out or -o that parseArgs reads as an option is taken as *)
(* the output directory (the last one counts) and never as the emoji or as *)
(* a flag, so that --out --all sets outDir to "--all" and leaves           *)
(* generateAll false; the emoji is the first of the other arguments        *)
(* without a leading dash, and later ones are ignored.                     *)
(***************************************************************************)
C26_ConsumedUnlessHelp ==
  (Parsed /\ ~HelpAsked(argv)) => C26_AsParsed

C26_Witness ==
  /\ argv = <<"--out", "--all", "E", "F">>
  /\ Parsed
  /\ opts = [emoji |-> "E", outDir |-> "--all", generateAll |-> FALSE]

(***************************************************************************)
(* C27.  When the argument list is empty or holds --help or -h at any      *)
(* place, the program prints the help text and exits with status 0 before  *)
(* it renders anything, and makes no file and no directory, whatever the   *)
(* other arguments are.                                                    *)
(***************************************************************************)
C27_HelpFirst ==
  (Parsed /\ (Len(argv) = 0
                \/ \E i \in 1..Len(argv) : argv[i] \in {"--help", "-h"})) =>
    /\ Exited
    /\ exitCode = 0
    /\ console = <<"help">>
    /\ fs = FsEmpty
    /\ opts = NoOpts
    /\ resize = <<>>
    /\ buffers = <<>>
    /\ \A c \in Calls : pc[c] = "idle"

C27_Witness ==
  /\ argv = <<"E", "--all", "--out", "-h">>
  /\ Exited
  /\ exitCode = 0
  /\ console = <<"help">>

(***************************************************************************)
(* C22.  When the output directory the program is given does not exist,    *)
(* with one or with several path components missing, the program makes it  *)
(* with its missing parents before it writes any file, and a completed run *)
(* leaves favicon.ico inside it.  (No directory can be made below a        *)
(* regular file: the case where a component of the path is a file is left  *)
(* out.)                                                                   *)
(***************************************************************************)
\* the step from the start of the program to its first await, taken with an
\* emoji and an output directory that does not exist
C22_MainMakesOutDir ==
  (/\ cliPc = "start"
   /\ opts'.emoji # ""
   /\ ~existsSync(fs, Segments(opts'.outDir))
   /\ \A q \in Prefixes(Segments(opts'.outDir)) : q \notin DOMAIN fs.files) =>
    /\ cliPc' = "resizing"
    /\ Prefixes(Segments(opts'.outDir)) \subseteq fs'.dirs
    /\ fs'.dirs = fs.dirs \cup Prefixes(Segments(opts'.outDir))
    /\ fs'.files = fs.files
    /\ fs'.log = <<<<"mkdir", Segments(opts'.outDir)>>>>

\* a directory the run made was made first, every file is written below it,
\* and favicon.ico is in it in the end
C22_MadeFirst ==
  (Parsed /\ OutPath \in Made) =>
    /\ fs.log[1] = <<"mkdir", OutPath>>
    /\ Prefixes(OutPath) \subseteq fs.dirs
    /\ \A p \in Written :
         Len(p) > Len(OutPath) /\ SubSeq(p, 1, Len(OutPath)) = OutPath
    /\ Completed =>
         /\ join(OutPath, "favicon.ico") \in Written
         /\ join(OutPath, "favicon.ico") \in DOMAIN fs.files
         /\ fs.files[join(OutPath, "favicon.ico")] = Out(1)

C22_CreatesOutDir == [][C22_MainMakesOutDir]_vars /\ []C22_MadeFirst

C22_Witness ==
  /\ Completed
  /\ opts.outDir = "a/b"
  /\ fs.log[1] = <<"mkdir", <<"a", "b">>>>
  /\ {<<"a">>, <<"a", "b">>} \subseteq fs.dirs
  /\ <<"a", "b", "favicon.ico">> \in DOMAIN fs.files

(***************************************************************************)
(* C23.  generateIco has no partial success: when sharp rejects one of the *)
(* input buffers the call never returns container bytes; Promise.all is    *)
(* rejected by the first parse task that fails and the call rejects with   *)
(* that error, whichever other tasks are fulfilled, rejected or still      *)
(* pending and in whatever order they settle; the error is the promise's   *)
(* result, and no later task changes it.                                   *)
(***************************************************************************)
C23_Failing == {i \in 1..N(1) : ~pngBuffers[1][i].valid}

\* the tasks of call 1 that have failed, and the first of them to do so
C23_Failed == {k \in 1..Len(order[1]) : tasks[1][order[1][k]] = "rejected"}

C23_NoPartialSuccess ==
  (pc[1] # "idle" /\ C23_Failing # {}) =>
    /\ ~Returned(1)
    /\ pc[1] = "parsing" => result[1] = NoResult
    /\ C23_Failed # {} =>
         /\ rejected[1] \in C23_Failing
         /\ rejected[1] =
              order[1][CHOOSE k \in C23_Failed : \A j \in C23_Failed : k <= j]
    /\ Settled(1) =>
         /\ pc[1] = "failed"
         /\ result[1].err = ERR_PNG
         /\ result[1].buf = <<>>
         /\ C23_Failed # {}

C23_Witness ==
  /\ pc[1] = "failed"
  /\ N(1) = 2
  /\ pngBuffers[1][2] = CorruptPng
  /\ tasks[1] = <<"fulfilled", "rejected">>
  /\ order[1] = <<1, 2>>
  /\ result[1] = Throw(ERR_PNG)

(***************************************************************************)
(* C24.  Two generateIco calls in flight at once on their own inputs do    *)
(* not affect each other: a step of one call (its start, the settling of   *)
(* one of its parse tasks, its run after the await) leaves the other       *)
(* call's tasks, images and result as they were, and under every           *)
(* interleaving each call settles with what it settles with when run       *)
(* alone, the bytes assembled from its own list or its own parse error.    *)
(***************************************************************************)
\* what a call with the list bufs settles with when it is the only call
C24_Alone(bufs) ==
  IF \E i \in 1..Len(bufs) : ~bufs[i].valid THEN Throw(ERR_PNG)
  ELSE assemble([i \in 1..Len(bufs) |-> parsePng(bufs[i])])

C24_Changed(c) ==
  \/ pc'[c] # pc[c]
  \/ tasks'[c] # tasks[c]
  \/ pngBuffers'[c] # pngBuffers[c]

C24_Frame ==
  \A c \in Calls : \A d \in Calls \ {c} :
    C24_Changed(c) =>
      /\ pc'[d] = pc[d]
      /\ pngBuffers'[d] = pngBuffers[d]
      /\ tasks'[d] = tasks[d]
      /\ images'[d] = images[d]
      /\ rejected'[d] = rejected[d]
      /\ order'[d] = order[d]
      /\ result'[d] = result[d]

C24_SameAsAlone ==
  \A c \in Calls :
    /\ Settled(c) => result[c] = C24_Alone(pngBuffers[c])
    /\ \A i \in 1..Len(tasks[c]) :
         tasks[c][i] = "fulfilled" => images[c][i] = parsePng(pngBuffers[c][i])

C24_Independent == [][C24_Frame]_vars /\ []C24_SameAsAlone

C24_Witness ==
  /\ Returned(1)
  /\ Returned(2)
  /\ N(1) = 2
  /\ N(2) = 2
  /\ pngBuffers[1] # pngBuffers[2]
  /\ Out(1) # Out(2)
  /\ order[1] = <<2, 1>>
  /\ order[2] = <<1, 2>>

(***************************************************************************)
(* C25.  convertRgbaToBgr never writes to its input buffer: after a call,  *)
(* returned or thrown, the input holds the bytes it held before, the       *)
(* result being in the buffer the call allocated; so after generateIco has *)
(* run, the decoded source images are as parsePng resolved them, whatever  *)
(* the call returned.                                                      *)
(***************************************************************************)
C25_InputUnchanged ==
  /\ unit.fn = "convertRgbaToBgr" => unit.after = unit.data
  /\ \A i \in 1..Len(tasks[1]) :
       tasks[1][i] = "fulfilled" =>
         /\ images[1][i].data = Raw(pngBuffers[1][i])
         /\ images[1][i] = parsePng(pngBuffers[1][i])

C25_Witness ==
  /\ Returned(1)
  /\ N(1) = 2
  /\ pngBuffers[1][1] = Png(2, 2, 16, 0)
  /\ images[1][1].data = Pixels(16, 0)
  /\ Bytes(Out(1), DataOffset(Out(1), 0) + 40, 16) # Pixels(16, 0)

====
